---- MODULE Spec2Model ----
(***************************************************************************)
(* Multi-layer reflector mass optimizer (src/reflector_optimizer.py).      *)
(*                                                                         *)
(* The optimizer works on Python floats.  A float is modelled as a binary  *)
(* floating-point number of MantBits significant bits, written as an       *)
(* integer count of units of 2^-FracBits (so 1.0 is One == 2^FracBits),    *)
(* and every +, -, *, / of the source is the exact result rounded to the   *)
(* nearest such number, ties to even, as IEEE-754 does with 53 bits.       *)
(* Values below 2^MantBits units lie on the uniform grid of the subnormal  *)
(* range.  np.inf is the top element Inf.  sum() and np.prod accumulate     *)
(* from left to right, one rounded operation per element.                  *)
(*                                                                         *)
(* Python's None is the record None; a returned dict is a record of kind   *)
(* "Solution"; an int passed for max_layers is a record of kind "int".     *)
(* Python indices start at 0, sequence positions here start at 1.          *)
(* The dict entries that only echo arguments or report hybrid_power        *)
(* (au_distance, travel_time_yr, available_power_kw) are not modelled.     *)
(*                                                                         *)
(* The last part models dyson_scalability (src/dyson_scalability.py) and   *)
(* the main loop of that script, with whole numbers.                       *)
(***************************************************************************)
EXTENDS Integers, Sequences, FiniteSets, TLC

\* The arguments of the two optimizers (R_target, candidates, max_layers,
\* power_opt) and what optimize_reflector_bruteforce and optimize_reflector_greedy
\* returned for them (exact_sol, greedy_sol; NotCalled before the call).
VARIABLES R_target, candidates, max_layers, power_opt, exact_sol, greedy_sol

\* A direct call of combined_reflectivity: its argument and what it returned.
VARIABLES cr_arg, cr_ret

\* The call of optimize_reflector_greedy in progress (its local names; NoFrame
\* when there is none) and what a second call of each optimizer with the same
\* arguments returned.
VARIABLES frame, exact_again, greedy_again

\* A direct call of dyson_scalability (src/dyson_scalability.py): its arguments
\* and what came of it; and the run of that script's main loop.
VARIABLES scal_args, scal_ret, main

vars == <<R_target, candidates, max_layers, power_opt, exact_sol, greedy_sol,
          cr_arg, cr_ret, frame, exact_again, greedy_again,
          scal_args, scal_ret, main>>

\* ------------------------------------------------------------------ bounds
\* Significant bits of a modelled float (53 in the program).
MantBits == 3
\* Binary digits after the point of the smallest modelled float.
FracBits == 6
\* Longest candidate list the optimizers are called with.
MaxN == 3

\* ------------------------------------------------------- float arithmetic
RECURSIVE Pow2(_)
Pow2(n) == IF n = 0 THEN 1 ELSE 2 * Pow2(n - 1)

\* 1.0
One == Pow2(FracBits)

\* np.inf: above every finite value the model computes.
Inf == 1000000000

\* n/d (n >= 0, d > 0) rounded to the nearest integer, ties to even.
RoundHalfEven(n, d) ==
    LET q == n \div d
        r == n % d
    IN  IF 2 * r < d THEN q
        ELSE IF 2 * r > d THEN q + 1
        ELSE IF q % 2 = 0 THEN q ELSE q + 1

\* 2^MantBits: a float's significand is below it.
MantLimit == Pow2(MantBits)

\* The power of two 2^e, from s on, at which n/(d * 2^e) is below 2^MantBits:
\* the weight of the last significant bit of n/d.
RECURSIVE Ulp(_, _, _)
Ulp(n, d, s) == IF n < MantLimit * d * s THEN s ELSE Ulp(n, d, 2 * s)

\* n/d (n >= 0, d > 0) rounded to the nearest float.
FlPos(n, d) ==
    LET s == Ulp(n, d, 1)
    IN  RoundHalfEven(n, d * s) * s

\* n/d (d > 0) rounded to the nearest float; rounding is symmetric in sign.
\* (A function, so that its arguments are evaluated once.)
Rounded[n \in Int, d \in Int] ==
    IF n < 0 THEN 0 - FlPos(0 - n, d) ELSE FlPos(n, d)

Fl(n, d) == Rounded[n, d]

\* x is a float: rounding leaves it alone.
IsFloat(x) == Fl(x, 1) = x

\* a + b, a - b, a * b, a / b (b # 0) of two floats.
FAdd(a, b) == Fl(a + b, 1)
FSub(a, b) == Fl(a - b, 1)
FMul(a, b) == Fl(a * b, One)
FDiv(a, b) == IF b > 0 THEN Fl(a * One, b) ELSE Fl(0 - a * One, 0 - b)

\* ------------------------------------------------------------ Python values
None == [kind |-> "None"]
NotCalled == [kind |-> "NotCalled"]
PyInt(k) == [kind |-> "int", value |-> k]
PyFloat(x) == [kind |-> "float", value |-> x]
NoFrame == [kind |-> "NoFrame"]

\* PowerOption.__init__
PowerOption(t, f) == [kind |-> "PowerOption", type |-> t, mass_reduction |-> f]

\* A discount applied twice.
optimize_mass_twice(self, base_mass_kg_m2) ==
    FMul(FMul(base_mass_kg_m2, FSub(One, self.mass_reduction)),
         FSub(One, self.mass_reduction))

\* PowerOption.optimize_mass
optimize_mass(self, base_mass_kg_m2) ==
    FMul(base_mass_kg_m2, FSub(One, self.mass_reduction))

\* ----------------------------------------------------- combined_reflectivity
\* np.prod over ts[i..]: the running product acc times the rest, left to right.
RECURSIVE ProdFrom(_, _, _)
ProdFrom(ts, i, acc) ==
    IF i > Len(ts) THEN acc ELSE ProdFrom(ts, i + 1, FMul(acc, ts[i]))

\* 1.0 - r, elementwise
OneMinus(r) == [i \in 1..Len(r) |-> FSub(One, r[i])]

\* The product alone: the fraction the stack lets through.
combined_reflectivity_Transmission(layer_reflectivities) ==
    LET r == layer_reflectivities
    IN  IF Len(r) = 0 THEN 0
        ELSE ProdFrom(OneMinus(r), 2, OneMinus(r)[1])

\* An empty stack taken for a perfect reflector.
combined_reflectivity_EmptyIsOne(layer_reflectivities) ==
    LET r == layer_reflectivities
    IN  IF Len(r) = 0 THEN One
        ELSE FSub(One, ProdFrom(OneMinus(r), 2, OneMinus(r)[1]))

combined_reflectivity(layer_reflectivities) ==
    LET r == layer_reflectivities
    IN  IF Len(r) = 0 THEN 0
        ELSE FSub(One, ProdFrom(OneMinus(r), 2, OneMinus(r)[1]))

\* Python's sum(): 0 + m1 + m2 + ... left to right.
RECURSIVE SumFrom(_, _, _)
SumFrom(ms, i, acc) ==
    IF i > Len(ms) THEN acc ELSE SumFrom(ms, i + 1, FAdd(acc, ms[i]))

sum(masses) == SumFrom(masses, 1, 0)

\* ------------------------------------------------ optimize_reflector_bruteforce
\* itertools.combinations(range(n), size): the increasing index tuples of length
\* k over lo..n, in lexicographic order.
RECURSIVE CombosFrom(_, _, _)
RECURSIVE CombosFirst(_, _, _)
CombosFirst(first, n, k) ==
    IF first > n - k + 1 THEN <<>>
    ELSE LET rest == CombosFrom(first + 1, n, k - 1)
         IN  [j \in 1..Len(rest) |-> <<first>> \o rest[j]]
             \o CombosFirst(first + 1, n, k)
CombosFrom(lo, n, k) ==
    IF k = 0 THEN << <<>> >> ELSE CombosFirst(lo, n, k)

combinations(n, size) == CombosFrom(1, n, size)

\* The cap taken one too large: min(max_layers + 2, n + 1).
SizeStop_OffByOne(n, maxl) ==
    IF maxl = None THEN n + 1
    ELSE IF maxl.value + 2 < n + 1 THEN maxl.value + 2 ELSE n + 1

\* The cap tested for truth, so that a cap of 0 counts as no cap.
SizeStop_ZeroIsNoCap(n, maxl) ==
    IF maxl = None \/ maxl = PyInt(0) THEN n + 1
    ELSE IF maxl.value + 1 < n + 1 THEN maxl.value + 1 ELSE n + 1

\* range(1, stop) of the outer loop: the exclusive upper end of the sizes.
SizeStop(n, maxl) ==
    IF maxl = None THEN n + 1
    ELSE IF maxl.value + 1 < n + 1 THEN maxl.value + 1 ELSE n + 1

\* The body without the mass comparison: the last feasible subset is kept.
BfVisit_KeepLast(st, Rt, cands, size, subset, popt) ==
    LET reflectivities == [j \in 1..Len(subset) |-> cands[subset[j]][1]]
        masses == [j \in 1..Len(subset) |-> cands[subset[j]][2]]
        R == combined_reflectivity(reflectivities)
        total_mass == IF popt # None THEN optimize_mass(popt, sum(masses))
                      ELSE sum(masses)
    IN  IF R >= Rt
        THEN << total_mass,
                [kind |-> "Solution",
                 total_areal_mass_kg_m2 |-> total_mass,
                 achieved_reflectivity |-> R,
                 layers_used |-> size,
                 selected_layers |->
                     [j \in 1..Len(subset) |-> <<reflectivities[j], masses[j]>>],
                 power_option |-> IF popt # None THEN popt.type ELSE "None"] >>
        ELSE st

\* The body without the target check: the lightest subset is kept.
BfVisit_NoTargetCheck(st, Rt, cands, size, subset, popt) ==
    LET reflectivities == [j \in 1..Len(subset) |-> cands[subset[j]][1]]
        masses == [j \in 1..Len(subset) |-> cands[subset[j]][2]]
        R == combined_reflectivity(reflectivities)
        total_mass == IF popt # None THEN optimize_mass(popt, sum(masses))
                      ELSE sum(masses)
    IN  IF total_mass < st[1]
        THEN << total_mass,
                [kind |-> "Solution",
                 total_areal_mass_kg_m2 |-> total_mass,
                 achieved_reflectivity |-> R,
                 layers_used |-> size,
                 selected_layers |->
                     [j \in 1..Len(subset) |-> <<reflectivities[j], masses[j]>>],
                 power_option |-> IF popt # None THEN popt.type ELSE "None"] >>
        ELSE st

\* The body with <= in the mass comparison: a later subset of equal mass is kept.
BfVisit_KeepTies(st, Rt, cands, size, subset, popt) ==
    LET reflectivities == [j \in 1..Len(subset) |-> cands[subset[j]][1]]
        masses == [j \in 1..Len(subset) |-> cands[subset[j]][2]]
        R == combined_reflectivity(reflectivities)
        total_mass == IF popt # None THEN optimize_mass(popt, sum(masses))
                      ELSE sum(masses)
    IN  IF R >= Rt /\ total_mass <= st[1]
        THEN << total_mass,
                [kind |-> "Solution",
                 total_areal_mass_kg_m2 |-> total_mass,
                 achieved_reflectivity |-> R,
                 layers_used |-> size,
                 selected_layers |->
                     [j \in 1..Len(subset) |-> <<reflectivities[j], masses[j]>>],
                 power_option |-> IF popt # None THEN popt.type ELSE "None"] >>
        ELSE st

\* The body of the inner loop for one subset: st is <<best_mass, best_solution>>.
BfVisit(st, Rt, cands, size, subset, popt) ==
    LET reflectivities == [j \in 1..Len(subset) |-> cands[subset[j]][1]]
        masses == [j \in 1..Len(subset) |-> cands[subset[j]][2]]
        R == combined_reflectivity(reflectivities)
        total_mass == IF popt # None THEN optimize_mass(popt, sum(masses))
                      ELSE sum(masses)
    IN  IF R >= Rt /\ total_mass < st[1]
        THEN << total_mass,
                [kind |-> "Solution",
                 total_areal_mass_kg_m2 |-> total_mass,
                 achieved_reflectivity |-> R,
                 layers_used |-> size,
                 selected_layers |->
                     [j \in 1..Len(subset) |-> <<reflectivities[j], masses[j]>>],
                 power_option |-> IF popt # None THEN popt.type ELSE "None"] >>
        ELSE st

\* The inner loop taking the subsets of a size from the last one back.
RECURSIVE BfSubsets_Backwards(_, _, _, _, _, _, _)
BfSubsets_Backwards(st, Rt, cands, size, combos, i, popt) ==
    IF i > Len(combos) THEN st
    ELSE BfSubsets_Backwards(
             BfVisit(st, Rt, cands, size, combos[Len(combos) + 1 - i], popt),
             Rt, cands, size, combos, i + 1, popt)

\* The inner loop from the i-th subset of the given size on.
RECURSIVE BfSubsets(_, _, _, _, _, _, _)
BfSubsets(st, Rt, cands, size, combos, i, popt) ==
    IF i > Len(combos) THEN st
    ELSE BfSubsets(BfVisit(st, Rt, cands, size, combos[i], popt),
                   Rt, cands, size, combos, i + 1, popt)

\* The outer loop from the given size on.
RECURSIVE BfSizes(_, _, _, _, _, _)
BfSizes(st, Rt, cands, size, stop, popt) ==
    IF size >= stop THEN st
    ELSE BfSizes(BfSubsets(st, Rt, cands, size,
                           combinations(Len(cands), size), 1, popt),
                 Rt, cands, size + 1, stop, popt)

optimize_reflector_bruteforce(Rt, cands, maxl, popt) ==
    BfSizes(<<Inf, None>>, Rt, cands, 1, SizeStop(Len(cands), maxl), popt)[2]

\* ---------------------------------------------------- optimize_reflector_greedy
\* The sort key: reflectivity per unit mass, np.inf for a candidate without mass.
SortKey(x) == IF x[2] > 0 THEN FDiv(x[1], x[2]) ELSE Inf

\* x put into a list sorted by decreasing key, behind the entries whose key is
\* not smaller (sorted(..., reverse=True) is stable).
RECURSIVE InsertByKey(_, _)
InsertByKey(s, x) ==
    IF Len(s) = 0 THEN <<x>>
    ELSE IF SortKey(Head(s)) >= SortKey(x) THEN <<Head(s)>> \o InsertByKey(Tail(s), x)
    ELSE <<x>> \o s

RECURSIVE SortedFrom(_, _, _)
SortedFrom(cands, i, acc) ==
    IF i > Len(cands) THEN acc
    ELSE SortedFrom(cands, i + 1, InsertByKey(acc, cands[i]))

sorted(cands) == SortedFrom(cands, 1, <<>>)

Reflectivities(layers) == [j \in 1..Len(layers) |-> layers[j][1]]

\* A scan that rates a candidate by its gain alone, whatever its mass.
Ratio_GainOnly(r, m, selected, current_R) ==
    LET trial_R == combined_reflectivity(<<r>> \o Reflectivities(selected))
    IN  FSub(trial_R, current_R)

\* The marginal ratio the scan gives the candidate <<r, m>>.
Ratio(r, m, selected, current_R) ==
    LET trial_R == combined_reflectivity(<<r>> \o Reflectivities(selected))
        delta_R == FSub(trial_R, current_R)
    IN  IF m > 0 THEN FDiv(delta_R, m) ELSE 0

\* The for loop over the remaining candidates from position i on; best is
\* <<best_ratio, best_idx>>, best_idx 0 standing for Python's -1.
RECURSIVE Scan(_, _, _, _, _)
Scan(cands, selected, current_R, i, best) ==
    IF i > Len(cands) THEN best
    ELSE LET ratio == Ratio(cands[i][1], cands[i][2], selected, current_R)
         IN  Scan(cands, selected, current_R, i + 1,
                  IF ratio > best[1] THEN <<ratio, i>> ELSE best)

\* A pop that always takes the list's first entry.
Pop_First(s, idx) == [j \in 1..(Len(s) - 1) |-> s[j + 1]]

\* list.pop(idx): the list without its idx-th entry.
Pop(s, idx) == [j \in 1..(Len(s) - 1) |-> IF j < idx THEN s[j] ELSE s[j + 1]]

\* One pass of the loop's body that keeps the scan's trial value (the new layer
\* multiplied in first) as the running reflectivity.
GreedyRound_KeepTrial(st, best_idx) ==
    LET c == st.candidates[best_idx]
        selected == Append(st.selected, c)
    IN  [candidates |-> Pop(st.candidates, best_idx),
         selected |-> selected,
         current_R |-> combined_reflectivity(<<c[1]>> \o Reflectivities(st.selected)),
         current_mass |-> FAdd(st.current_mass, c[2])]

\* The pass that assigns the layer's mass instead of adding it.
GreedyRound_MassAssigned(st, best_idx) ==
    LET c == st.candidates[best_idx]
        selected == Append(st.selected, c)
    IN  [candidates |-> Pop(st.candidates, best_idx),
         selected |-> selected,
         current_R |-> combined_reflectivity(Reflectivities(selected)),
         current_mass |-> c[2]]

\* One pass of the while loop's body, given the scan's best_idx # -1.
GreedyRound(st, best_idx) ==
    LET c == st.candidates[best_idx]
        selected == Append(st.selected, c)
    IN  [candidates |-> Pop(st.candidates, best_idx),
         selected |-> selected,
         current_R |-> combined_reflectivity(Reflectivities(selected)),
         current_mass |-> FAdd(st.current_mass, c[2])]

\* The while loop.
RECURSIVE GreedyLoop(_, _)
GreedyLoop(st, Rt) ==
    IF st.current_R < Rt /\ Len(st.candidates) > 0
    THEN LET best == Scan(st.candidates, st.selected, st.current_R, 1, <<0 - One, 0>>)
         IN  IF best[2] = 0 THEN st
             ELSE GreedyLoop(GreedyRound(st, best[2]), Rt)
    ELSE st

\* The function without its final feasibility check.
optimize_reflector_greedy_NoCheck(Rt, cands, popt) ==
    LET st == GreedyLoop([candidates |-> sorted(cands), selected |-> <<>>,
                          current_R |-> 0, current_mass |-> 0], Rt)
        current_mass == IF st.current_R >= Rt /\ popt # None
                        THEN optimize_mass(popt, st.current_mass)
                        ELSE st.current_mass
    IN  IF TRUE
        THEN [kind |-> "Solution",
              total_areal_mass_kg_m2 |-> current_mass,
              achieved_reflectivity |-> st.current_R,
              layers_used |-> Len(st.selected),
              selected_layers |-> st.selected,
              method |-> "greedy",
              power_option |-> IF popt # None THEN popt.type ELSE "None"]
        ELSE None

optimize_reflector_greedy(Rt, cands, popt) ==
    LET st == GreedyLoop([candidates |-> sorted(cands), selected |-> <<>>,
                          current_R |-> 0, current_mass |-> 0], Rt)
        current_mass == IF st.current_R >= Rt /\ popt # None
                        THEN optimize_mass(popt, st.current_mass)
                        ELSE st.current_mass
    IN  IF st.current_R >= Rt
        THEN [kind |-> "Solution",
              total_areal_mass_kg_m2 |-> current_mass,
              achieved_reflectivity |-> st.current_R,
              layers_used |-> Len(st.selected),
              selected_layers |-> st.selected,
              method |-> "greedy",
              power_option |-> IF popt # None THEN popt.type ELSE "None"]
        ELSE None

\* ------------------------------------------------------------------ the calls
\* Candidate layers <<reflectivity, areal_mass>> the callers pass: well-formed
\* ones, one without mass, one of reflectivity 1.0 and one of negative mass.
CandidateValues ==
    { <<24, 48>>, <<12, 10>>, <<28, 40>>,
      <<8, 0>>, <<One, 10>>, <<12, 0 - 10>> }

CandidateLists == UNION { [1..n -> CandidateValues] : n \in 0..MaxN }

\* Targets the callers pass: 0 is outside (0,1].
Targets == { 0, 24, 48 }

MaxLayersValues == { None, PyInt(0), PyInt(1), PyInt(2) }

PowerOptions == { None, PowerOption("p-B11", 16) }

\* dyson_scalability is not called and its script is not run.
NoArgs == [kind |-> "NoArgs"]
NotRun == [kind |-> "NotRun"]
NoScalabilityCall == scal_args = NoArgs /\ scal_ret = NotCalled /\ main = NotRun

\* No direct call of combined_reflectivity is made.
NoDirectCall == cr_arg = <<>> /\ cr_ret = NotCalled

\* Each optimizer is called at most once, each call as a whole.
SingleCalls == frame = NoFrame /\ exact_again = NotCalled /\ greedy_again = NotCalled

Init ==
    /\ NoScalabilityCall
    /\ NoDirectCall
    /\ SingleCalls
    /\ R_target \in { t \in Targets : IsFloat(t) }
    /\ candidates \in { c \in CandidateLists :
                          \A i \in 1..Len(c) : IsFloat(c[i][1]) /\ IsFloat(c[i][2]) }
    /\ max_layers \in MaxLayersValues
    /\ power_opt \in PowerOptions
    /\ exact_sol = NotCalled
    /\ greedy_sol = NotCalled

\* sol = optimize_reflector_bruteforce(R_target, candidates, max_layers, power_opt)
CallBruteforce ==
    /\ exact_sol = NotCalled
    /\ exact_sol' = optimize_reflector_bruteforce(R_target, candidates,
                                                  max_layers, power_opt)
    /\ UNCHANGED <<R_target, candidates, max_layers, power_opt, greedy_sol>>
    /\ UNCHANGED <<cr_arg, cr_ret, frame, exact_again, greedy_again>>
    /\ UNCHANGED <<scal_args, scal_ret, main>>

\* sol = optimize_reflector_greedy(R_target, candidates, power_opt)
CallGreedy ==
    /\ greedy_sol = NotCalled
    /\ greedy_sol' = optimize_reflector_greedy(R_target, candidates, power_opt)
    /\ UNCHANGED <<R_target, candidates, max_layers, power_opt, exact_sol>>
    /\ UNCHANGED <<cr_arg, cr_ret, frame, exact_again, greedy_again>>
    /\ UNCHANGED <<scal_args, scal_ret, main>>

Next == CallBruteforce \/ CallGreedy

Spec == Init /\ [][Next]_vars

\* ------------------------------------------- combined_reflectivity on its own
\* Reflectivities a caller passes: values of [0,1) and 1.0, which is outside.
ReflectivityValues == { 0, 8, 12, 24, 56, One }

ReflectivityLists == UNION { [1..n -> ReflectivityValues] : n \in 0..MaxN }

\* No optimizer is called.
NoOptimizerCall ==
    /\ R_target = One
    /\ candidates = <<>>
    /\ max_layers = None
    /\ power_opt = None
    /\ exact_sol = NotCalled
    /\ greedy_sol = NotCalled
    /\ SingleCalls

ReflInit ==
    /\ NoScalabilityCall
    /\ NoOptimizerCall
    /\ cr_arg \in { r \in ReflectivityLists : \A i \in 1..Len(r) : IsFloat(r[i]) }
    /\ cr_ret = NotCalled

\* R = combined_reflectivity(cr_arg)
CallCombinedReflectivity ==
    /\ cr_ret = NotCalled
    /\ cr_ret' = PyFloat(combined_reflectivity(cr_arg))
    /\ UNCHANGED <<R_target, candidates, max_layers, power_opt, exact_sol, greedy_sol>>
    /\ UNCHANGED <<cr_arg, frame, exact_again, greedy_again>>
    /\ UNCHANGED <<scal_args, scal_ret, main>>

ReflNext == CallCombinedReflectivity

ReflSpec == ReflInit /\ [][ReflNext]_vars

\* -------------------------------------- optimize_reflector_greedy step by step
\* The locals of a call at its entry, after the sort: the name candidates is
\* rebound to the new list sorted() returns, so it no longer refers to the
\* caller's list (aliased is FALSE); pc is the position in the function.
Enter_SortInPlace(cands) ==
    [kind |-> "Frame", pc |-> "while", aliased |-> TRUE,
     st |-> [candidates |-> sorted(cands), selected |-> <<>>,
             current_R |-> 0, current_mass |-> 0],
     best |-> <<0 - One, 0>>]

Enter(cands) ==
    [kind |-> "Frame", pc |-> "while", aliased |-> FALSE,
     st |-> [candidates |-> sorted(cands), selected |-> <<>>,
             current_R |-> 0, current_mass |-> 0],
     best |-> <<0 - One, 0>>]

\* The caller's list as if every call worked on the caller's own list.
CallerList_Shared(fr, cands) == fr.st.candidates

\* The caller's list while the call is in frame fr: what the local list holds
\* when both names refer to one list, untouched otherwise.
CallerList(fr, cands) == IF fr.aliased THEN fr.st.candidates ELSE cands

\* The loop runs on while the target is not exceeded.
WhileCondition_TargetInclusive(st, Rt) ==
    st.current_R <= Rt /\ Len(st.candidates) > 0

\* The loop runs on whatever the target.
WhileCondition_IgnoreTarget(st, Rt) == Len(st.candidates) > 0

\* while current_R < R_target and candidates
WhileCondition(st, Rt) == st.current_R < Rt /\ Len(st.candidates) > 0

\* What the function returns once the loop is left.
GreedyResult(st, Rt, popt) ==
    LET current_mass == IF st.current_R >= Rt /\ popt # None
                        THEN optimize_mass(popt, st.current_mass)
                        ELSE st.current_mass
    IN  IF st.current_R >= Rt
        THEN [kind |-> "Solution",
              total_areal_mass_kg_m2 |-> current_mass,
              achieved_reflectivity |-> st.current_R,
              layers_used |-> Len(st.selected),
              selected_layers |-> st.selected,
              method |-> "greedy",
              power_option |-> IF popt # None THEN popt.type ELSE "None"]
        ELSE None

\* Candidate layers of the stepwise calls: two of nearly the same reflectivity
\* per mass and one of negative reflectivity, which no scan picks.
StepCandidateValues == { <<16, 10>>, <<24, 16>>, <<0 - 32, 16>> }

StepCandidateLists ==
    UNION { [1..n -> StepCandidateValues] : n \in 0..(MaxN + 1) }

StepTargets == { 24, 48 }

GreedyInit ==
    /\ NoScalabilityCall
    /\ NoDirectCall
    /\ SingleCalls
    /\ R_target \in { t \in StepTargets : IsFloat(t) }
    /\ candidates \in { c \in StepCandidateLists :
                          \A i \in 1..Len(c) : IsFloat(c[i][1]) /\ IsFloat(c[i][2]) }
    /\ max_layers = None
    /\ power_opt \in PowerOptions
    /\ exact_sol = NotCalled
    /\ greedy_sol = NotCalled

\* The call and lines 117-123: a first call, or a second one after the first
\* has returned.
GreedyEnter ==
    /\ frame = NoFrame
    /\ greedy_again = NotCalled
    /\ frame' = Enter(candidates)
    /\ candidates' = CallerList(frame', candidates)
    /\ UNCHANGED <<R_target, max_layers, power_opt, exact_sol, greedy_sol>>
    /\ UNCHANGED <<cr_arg, cr_ret, exact_again, greedy_again>>
    /\ UNCHANGED <<scal_args, scal_ret, main>>

\* The loop test passes and the for loop scans the remaining candidates.
GreedyScan ==
    /\ frame.kind = "Frame"
    /\ frame.pc = "while"
    /\ WhileCondition(frame.st, R_target)
    /\ frame' = [frame EXCEPT
                    !.pc = "scanned",
                    !.best = Scan(frame.st.candidates, frame.st.selected,
                                  frame.st.current_R, 1, <<0 - One, 0>>)]
    /\ UNCHANGED <<R_target, candidates, max_layers, power_opt, exact_sol, greedy_sol>>
    /\ UNCHANGED <<cr_arg, cr_ret, exact_again, greedy_again>>
    /\ UNCHANGED <<scal_args, scal_ret, main>>

\* if best_idx == -1: break
GreedyBreak ==
    /\ frame.kind = "Frame"
    /\ frame.pc = "scanned"
    /\ frame.best[2] = 0
    /\ frame' = [frame EXCEPT !.pc = "break"]
    /\ UNCHANGED <<R_target, candidates, max_layers, power_opt, exact_sol, greedy_sol>>
    /\ UNCHANGED <<cr_arg, cr_ret, exact_again, greedy_again>>
    /\ UNCHANGED <<scal_args, scal_ret, main>>

\* The scan's best candidate is popped and appended (lines 140-143).
GreedySelect ==
    /\ frame.kind = "Frame"
    /\ frame.pc = "scanned"
    /\ frame.best[2] # 0
    /\ frame' = [frame EXCEPT !.pc = "while",
                              !.st = GreedyRound(frame.st, frame.best[2])]
    /\ candidates' = CallerList(frame', candidates)
    /\ UNCHANGED <<R_target, max_layers, power_opt, exact_sol, greedy_sol>>
    /\ UNCHANGED <<cr_arg, cr_ret, exact_again, greedy_again>>
    /\ UNCHANGED <<scal_args, scal_ret, main>>

\* The loop is left and the function returns (lines 145-165).
GreedyReturn ==
    /\ frame.kind = "Frame"
    /\ \/ frame.pc = "break"
       \/ frame.pc = "while" /\ ~WhileCondition(frame.st, R_target)
    /\ IF greedy_sol = NotCalled
       THEN /\ greedy_sol' = GreedyResult(frame.st, R_target, power_opt)
            /\ UNCHANGED greedy_again
       ELSE /\ greedy_again' = GreedyResult(frame.st, R_target, power_opt)
            /\ UNCHANGED greedy_sol
    /\ frame' = NoFrame
    /\ UNCHANGED <<R_target, candidates, max_layers, power_opt, exact_sol>>
    /\ UNCHANGED <<cr_arg, cr_ret, exact_again>>
    /\ UNCHANGED <<scal_args, scal_ret, main>>

\* The caller calls the exact optimizer between two greedy calls.
CallBruteforceFirst == frame = NoFrame /\ CallBruteforce

\* The caller calls the exact optimizer again with the same arguments.
CallBruteforceAgain ==
    /\ frame = NoFrame
    /\ exact_sol # NotCalled
    /\ exact_again = NotCalled
    /\ exact_again' = optimize_reflector_bruteforce(R_target, candidates,
                                                    max_layers, power_opt)
    /\ UNCHANGED <<R_target, candidates, max_layers, power_opt, exact_sol, greedy_sol>>
    /\ UNCHANGED <<cr_arg, cr_ret, frame, greedy_again>>
    /\ UNCHANGED <<scal_args, scal_ret, main>>

GreedyStep == GreedyScan \/ GreedyBreak \/ GreedySelect \/ GreedyReturn

GreedyNext ==
    \/ GreedyEnter
    \/ GreedyScan
    \/ GreedyBreak
    \/ GreedySelect
    \/ GreedyReturn
    \/ CallBruteforceFirst
    \/ CallBruteforceAgain

GreedySpec == GreedyInit /\ [][GreedyNext]_vars

\* A call that has started runs on to its return.
GreedyFairSpec == GreedySpec /\ WF_vars(GreedyStep)

\* ------------------------------------------------------------- claim helpers
IsSolution(s) == s.kind = "Solution"

\* The inputs the data model admits: reflectivities in [0,1), masses >= 0,
\* target in (0,1].
WellFormedCandidates ==
    \A i \in 1..Len(candidates) :
        /\ 0 <= candidates[i][1] /\ candidates[i][1] < One
        /\ candidates[i][2] >= 0
WellFormedTarget == 0 < R_target /\ R_target <= One
WellFormed == WellFormedCandidates /\ WellFormedTarget

\* The members of a set of positions, in increasing order.
RECURSIVE IndexSeq(_)
IndexSeq(S) ==
    IF S = {} THEN <<>>
    ELSE LET lo == CHOOSE x \in S : \A y \in S : x <= y
         IN  <<lo>> \o IndexSeq(S \ {lo})

NonEmptySubsets == (SUBSET (1..Len(candidates))) \ {{}}

\* Reflectivity and reported mass of the stack made of the positions S.
SubsetReflectivity(S) ==
    combined_reflectivity([j \in 1..Cardinality(S) |-> candidates[IndexSeq(S)[j]][1]])
SubsetMass(S) ==
    LET total == sum([j \in 1..Cardinality(S) |-> candidates[IndexSeq(S)[j]][2]])
    IN  IF power_opt # None
        THEN Fl(total * Fl(One - power_opt.mass_reduction, 1), One)
        ELSE total
Feasible(S) == SubsetReflectivity(S) >= R_target

\* The results of the same calls made without a power option.
ExactWithoutPower ==
    optimize_reflector_bruteforce(R_target, candidates, max_layers, None)
GreedyWithoutPower == optimize_reflector_greedy(R_target, candidates, None)

\* ---------------------------------------------------------------------- C1
\* C1: called without max_layers, a Solution of the exact optimizer meets the
\* target and no non-empty subset of the candidates that meets the target has a
\* smaller total areal mass.
C1_ExactIsMinimum ==
    (max_layers = None /\ IsSolution(exact_sol)) =>
        /\ exact_sol.achieved_reflectivity >= R_target
        /\ \A S \in NonEmptySubsets :
              Feasible(S) => exact_sol.total_areal_mass_kg_m2 <= SubsetMass(S)

\* A Solution of two or more layers that beats a feasible single layer of
\* larger mass, which the enumeration met first.
C1_Witness ==
    /\ WellFormed
    /\ max_layers = None
    /\ IsSolution(exact_sol)
    /\ exact_sol.layers_used >= 2
    /\ \E i \in 1..Len(candidates) :
          /\ Feasible({i})
          /\ SubsetMass({i}) > exact_sol.total_areal_mass_kg_m2

\* ---------------------------------------------------------------------- C2
\* C2: every Solution either optimizer returns has an achieved reflectivity of
\* at least the target.
C2_SolutionMeetsTarget ==
    /\ IsSolution(exact_sol) => exact_sol.achieved_reflectivity >= R_target
    /\ IsSolution(greedy_sol) => greedy_sol.achieved_reflectivity >= R_target

\* Both optimizers returned a Solution while some candidate alone is below the
\* target.
C2_Witness ==
    /\ WellFormed
    /\ IsSolution(exact_sol)
    /\ IsSolution(greedy_sol)
    /\ \E i \in 1..Len(candidates) : ~Feasible({i})

\* ---------------------------------------------------------------------- C3
\* C3: on well-formed input and without a max_layers cap, when both optimizers
\* return a Solution the exact one's total mass is at most the greedy one's.
C3_ExactNotHeavierThanGreedy ==
    (WellFormed /\ max_layers = None /\ IsSolution(exact_sol) /\ IsSolution(greedy_sol)) =>
        exact_sol.total_areal_mass_kg_m2 <= greedy_sol.total_areal_mass_kg_m2

\* ---------------------------------------------------------------------- C4
\* C4: on well-formed input, when the combined reflectivity of the full candidate
\* list is below the target, both optimizers return None.
C4_InfeasibleWhenFullSetBelowTarget ==
    (WellFormed /\ combined_reflectivity(Reflectivities(candidates)) < R_target) =>
        /\ exact_sol \in {NotCalled, None}
        /\ greedy_sol \in {NotCalled, None}

\* ---------------------------------------------------------------------- C5
\* C5: on malformed input (a reflectivity outside [0,1), a negative mass, a
\* target outside (0,1]) a call ends in InvalidInput, neither a Solution nor None.
C5_MalformedInputIsRejected ==
    ~WellFormed =>
        /\ exact_sol \in {NotCalled, [kind |-> "InvalidInput"]}
        /\ greedy_sol \in {NotCalled, [kind |-> "InvalidInput"]}

\* ---------------------------------------------------------------------- C6
\* C6: for a target in (0,1] no Solution of either optimizer has zero layers, and
\* None is not a Solution, a Solution of total mass 0 included.
C6_NoZeroLayerSolution ==
    WellFormedTarget =>
        \A s \in {exact_sol, greedy_sol} :
            /\ IsSolution(s) =>
                  /\ s.layers_used >= 1
                  /\ Len(s.selected_layers) >= 1
                  /\ s # None
            /\ (s = None) => ~IsSolution(s)

\* Both optimizers returned a Solution of total mass 0.
C6_Witness ==
    /\ WellFormed
    /\ IsSolution(exact_sol)
    /\ exact_sol.total_areal_mass_kg_m2 = 0
    /\ IsSolution(greedy_sol)
    /\ greedy_sol.total_areal_mass_kg_m2 = 0

\* ---------------------------------------------------------------------- C7
\* The total mass s reports is the discount (1 - f), applied once, of the total
\* mass of base, the Solution of the same search without a power option, and of
\* the summed mass m of its own layers.
DiscountedOnce(s, base, m) ==
    LET keep == Fl(One - power_opt.mass_reduction, 1)
    IN  /\ IsSolution(base)
        /\ s.total_areal_mass_kg_m2 = Fl(base.total_areal_mass_kg_m2 * keep, One)
        /\ s.total_areal_mass_kg_m2 = Fl(m * keep, One)

\* The mass the greedy loop accumulates over the layers it selected, in order.
RECURSIVE RunningMass(_, _, _)
RunningMass(layers, i, acc) ==
    IF i > Len(layers) THEN acc
    ELSE RunningMass(layers, i + 1, Fl(acc + layers[i][2], 1))

\* C7: with a power option of fraction f in [0,1), a Solution's total mass is
\* (1 - f) times the total mass of the Solution of the same search without the
\* power option, which is (the sum of the selected layers' masses) * (1 - f).
C7_PowerScalesMassOnce ==
    power_opt # None =>
        /\ IsSolution(exact_sol) =>
              DiscountedOnce(exact_sol, ExactWithoutPower,
                             RunningMass(exact_sol.selected_layers, 1, 0))
        /\ IsSolution(greedy_sol) =>
              DiscountedOnce(greedy_sol, GreedyWithoutPower,
                             RunningMass(greedy_sol.selected_layers, 1, 0))

\* Both optimizers returned a Solution under a power option, lighter than the
\* Solution without it.
C7_Witness ==
    /\ WellFormed
    /\ power_opt # None
    /\ IsSolution(exact_sol)
    /\ IsSolution(greedy_sol)
    /\ exact_sol.total_areal_mass_kg_m2 < ExactWithoutPower.total_areal_mass_kg_m2
    /\ greedy_sol.total_areal_mass_kg_m2 < GreedyWithoutPower.total_areal_mass_kg_m2

\* ---------------------------------------------------------------------- C8
\* s and base are the same outcome with the same layers and reflectivity.
SameSelection(s, base) ==
    /\ IsSolution(s) <=> IsSolution(base)
    /\ IsSolution(s) =>
          /\ s.selected_layers = base.selected_layers
          /\ s.achieved_reflectivity = base.achieved_reflectivity

\* C8: on well-formed input a power option changes neither the outcome, nor the
\* selected layers, nor the achieved reflectivity of either optimizer.
C8_PowerKeepsSelection ==
    (WellFormed /\ power_opt # None) =>
        /\ exact_sol # NotCalled => SameSelection(exact_sol, ExactWithoutPower)
        /\ greedy_sol # NotCalled => SameSelection(greedy_sol, GreedyWithoutPower)

\* ---------------------------------------------------------------------- C9
\* The candidate <<r, m>> has no mass and reflects.
ZeroMass(c) == c[2] = 0 /\ c[1] > 0

\* How many of the first k entries of a list have no mass and reflect.
RECURSIVE ZeroMassCount(_, _)
ZeroMassCount(layers, k) ==
    IF k = 0 THEN 0
    ELSE ZeroMassCount(layers, k - 1) + (IF ZeroMass(layers[k]) THEN 1 ELSE 0)

\* C9: on well-formed input the greedy optimizer selects every candidate of mass
\* 0 and reflectivity > 0 before it selects any candidate of positive mass.
C9_ZeroMassFirst ==
    (WellFormed /\ IsSolution(greedy_sol)) =>
        \A j \in 1..Len(greedy_sol.selected_layers) :
            greedy_sol.selected_layers[j][2] > 0 =>
                ZeroMassCount(greedy_sol.selected_layers, j - 1)
                    = ZeroMassCount(candidates, Len(candidates))

\* --------------------------------------------------------------------- C10
\* C10: with max_layers = k a Solution of the exact optimizer has at most k
\* layers; with max_layers = 1 it is one layer, a lightest candidate that meets
\* the target alone, and the result is None exactly when no candidate does.
C10_MaxLayersCap ==
    (exact_sol # NotCalled /\ max_layers # None) =>
        /\ IsSolution(exact_sol) =>
              /\ exact_sol.layers_used <= max_layers.value
              /\ Len(exact_sol.selected_layers) <= max_layers.value
        /\ max_layers.value = 1 =>
              /\ IsSolution(exact_sol) =>
                    /\ exact_sol.layers_used = 1
                    /\ Len(exact_sol.selected_layers) = 1
                    /\ \E i \in 1..Len(candidates) :
                          /\ exact_sol.selected_layers = <<candidates[i]>>
                          /\ Feasible({i})
                    /\ \A i \in 1..Len(candidates) :
                          Feasible({i}) =>
                              exact_sol.total_areal_mass_kg_m2 <= SubsetMass({i})
              /\ (exact_sol = None) <=>
                    \A i \in 1..Len(candidates) : ~Feasible({i})

\* Capped at one layer the exact optimizer returns a single layer although,
\* uncapped, it finds a lighter stack of several layers.
C10_Witness ==
    /\ WellFormed
    /\ max_layers = PyInt(1)
    /\ IsSolution(exact_sol)
    /\ LET free == optimize_reflector_bruteforce(R_target, candidates, None, power_opt)
       IN  /\ free.layers_used >= 2
           /\ free.total_areal_mass_kg_m2 < exact_sol.total_areal_mass_kg_m2

\* --------------------------------------------------------------------- C11
\* 1 - prod(1 - r_i) in float arithmetic, the factors taken in sequence order:
\* the product of the first k factors.
RECURSIVE ProductOfComplements(_, _)
ProductOfComplements(r, k) ==
    IF k = 1 THEN FSub(One, r[1])
    ELSE FMul(ProductOfComplements(r, k - 1), FSub(One, r[k]))
OneMinusProduct(r) ==
    IF Len(r) = 0 THEN 0 ELSE FSub(One, ProductOfComplements(r, Len(r)))

\* C11: combined_reflectivity of a sequence is 1 - prod(1 - r_i), and the
\* achieved reflectivity a Solution of either optimizer reports is that value
\* over exactly the Solution's selected layers.
C11_AchievedIsCombined ==
    /\ combined_reflectivity(Reflectivities(candidates))
          = OneMinusProduct(Reflectivities(candidates))
    /\ \A s \in {exact_sol, greedy_sol} :
          IsSolution(s) =>
              /\ s.achieved_reflectivity
                    = combined_reflectivity(Reflectivities(s.selected_layers))
              /\ s.achieved_reflectivity
                    = OneMinusProduct(Reflectivities(s.selected_layers))

\* Both optimizers returned a Solution of three layers, whose combined
\* reflectivity depends on the order the layers are multiplied in.
C11_Witness ==
    /\ IsSolution(exact_sol)
    /\ IsSolution(greedy_sol)
    /\ exact_sol.layers_used = 3
    /\ greedy_sol.layers_used = 3
    /\ \E a, b, c \in 1..3 :
          /\ {a, b, c} = 1..3
          /\ LET l == greedy_sol.selected_layers
             IN  combined_reflectivity(<<l[a][1], l[b][1], l[c][1]>>)
                     # greedy_sol.achieved_reflectivity

\* --------------------------------------------------------------------- C12
\* Every reflectivity of the sequence lies in [0,1).
ValidReflectivities(r) == \A i \in 1..Len(r) : 0 <= r[i] /\ r[i] < One

\* C12: for reflectivities in [0,1), the combined reflectivity of a sequence is
\* at least that of the sequence without any one of its layers: adding a
\* layer, at whatever position, never decreases it.
C12_Monotone ==
    (cr_ret # NotCalled /\ ValidReflectivities(cr_arg)) =>
        \A i \in 1..Len(cr_arg) :
            combined_reflectivity(Pop(cr_arg, i)) <= cr_ret.value

\* Three layers whose combined reflectivity is above that of the two left when
\* the first, the middle or the last one is taken away.
C12_Witness ==
    /\ cr_ret # NotCalled
    /\ ValidReflectivities(cr_arg)
    /\ Len(cr_arg) = 3
    /\ \A i \in 1..3 : combined_reflectivity(Pop(cr_arg, i)) < cr_ret.value

\* --------------------------------------------------------------------- C13
\* C13: combined_reflectivity of the empty sequence is exactly 0.
C13_EmptyIsZero ==
    (cr_ret # NotCalled /\ cr_arg = <<>>) => cr_ret.value = 0

\* combined_reflectivity was called with no layers.
C13_Witness == cr_arg = <<>> /\ cr_ret # NotCalled

\* --------------------------------------------------------------------- C14
\* The sequence r in the order the permutation p of its positions gives.
Permuted(r, p) == [j \in 1..Len(r) |-> r[p[j]]]

\* C14: combined_reflectivity returns the same value for every permutation of
\* its input sequence.
C14_OrderIndependent ==
    cr_ret # NotCalled =>
        \A p \in Permutations(1..Len(cr_arg)) :
            combined_reflectivity(Permuted(cr_arg, p)) = cr_ret.value

\* --------------------------------------------------------------------- C15
\* C15: for reflectivities in [0,1) combined_reflectivity returns a value in
\* [0,1): never negative, never 1.
C15_ResultInUnitInterval ==
    (cr_ret # NotCalled /\ ValidReflectivities(cr_arg)) =>
        0 <= cr_ret.value /\ cr_ret.value < One

\* --------------------------------------------------------------------- C16
\* The layers are candidates of the input, each taken from a position of its
\* own.
DrawnFromCandidates(layers) ==
    \E f \in [1..Len(layers) -> 1..Len(candidates)] :
        /\ \A i, j \in 1..Len(layers) : i # j => f[i] # f[j]
        /\ \A j \in 1..Len(layers) : layers[j] = candidates[f[j]]

\* The sum of the layers' masses, in their order, times (1 - mass_reduction)
\* under a power option.
DiscountedSum(layers) ==
    LET total == RunningMass(layers, 1, 0)
    IN  IF power_opt # None
        THEN Fl(total * Fl(One - power_opt.mass_reduction, 1), One)
        ELSE total

\* C16: in every Solution of either optimizer the selected layers are pairs of
\* the input candidates, no position used twice, layers_used is their number,
\* and the total mass is the sum of their masses times (1 - mass_reduction)
\* under a power option, times 1 without.
C16_SolutionConsistent ==
    \A s \in {exact_sol, greedy_sol} :
        IsSolution(s) =>
            /\ DrawnFromCandidates(s.selected_layers)
            /\ s.layers_used = Len(s.selected_layers)
            /\ s.total_areal_mass_kg_m2 = DiscountedSum(s.selected_layers)

\* Under a power option both optimizers returned a Solution of several layers,
\* the greedy one in another order than the input's, and the discount shows.
C16_Witness ==
    /\ WellFormed
    /\ power_opt # None
    /\ IsSolution(exact_sol)
    /\ IsSolution(greedy_sol)
    /\ exact_sol.layers_used >= 2
    /\ greedy_sol.layers_used >= 2
    /\ greedy_sol.selected_layers[1] # candidates[1]
    /\ greedy_sol.total_areal_mass_kg_m2
          < RunningMass(greedy_sol.selected_layers, 1, 0)
    /\ \E i \in 1..Len(candidates) :
          \A j \in 1..Len(greedy_sol.selected_layers) :
              greedy_sol.selected_layers[j] # candidates[i]

\* The stepwise run returns what the function computes as a whole.
StepwiseAgrees ==
    /\ greedy_sol # NotCalled =>
          greedy_sol = optimize_reflector_greedy(R_target, candidates, power_opt)
    /\ exact_sol # NotCalled =>
          exact_sol = optimize_reflector_bruteforce(R_target, candidates,
                                                    max_layers, power_opt)

\* --------------------------------------------------------------------- C17
\* C17: no step of either optimizer changes the caller's candidates list: it
\* holds the same elements in the same order after a call as before it.
C17_InputsNotMutated == [][candidates' = candidates]_vars

\* Both optimizers have returned, the greedy one after sorting its working list
\* into another order than the caller's and popping layers from it.
C17_Witness ==
    /\ frame = NoFrame
    /\ exact_sol # NotCalled
    /\ IsSolution(greedy_sol)
    /\ greedy_sol.layers_used >= 2
    /\ sorted(candidates) # candidates
    /\ Len(candidates) > greedy_sol.layers_used

MarginalRatio(selected, c) ==
    FDiv(FSub(combined_reflectivity(Reflectivities(selected) \o <<c[1]>>),
              combined_reflectivity(Reflectivities(selected))),
         c[2])

\* C19: in every round in which all remaining candidates have positive mass,
\* no remaining candidate has a strictly larger marginal ratio than the one
\* the scan picked.
C19_PickMaximizesMarginalRatio ==
    ( /\ frame.kind = "Frame"
      /\ frame.pc = "scanned"
      /\ frame.best[2] # 0
      /\ \A j \in 1..Len(frame.st.candidates) : frame.st.candidates[j][2] > 0 ) =>
        \A j \in 1..Len(frame.st.candidates) :
            MarginalRatio(frame.st.selected, frame.st.candidates[j])
                <= MarginalRatio(frame.st.selected,
                                 frame.st.candidates[frame.best[2]])

\* --------------------------------------------------------------------- C20
\* The step is the start of a round: the loop test has passed.
RoundStarts ==
    /\ frame.kind = "Frame" /\ frame.pc = "while"
    /\ frame'.kind = "Frame" /\ frame'.pc = "scanned"

\* The step is the end of a round that selected a candidate.
RoundEnds ==
    /\ frame.kind = "Frame" /\ frame.pc = "scanned"
    /\ frame'.kind = "Frame" /\ frame'.pc = "while"

\* C20: the greedy optimizer terminates: no round starts once the running
\* reflectivity has reached the target or no candidates remain, each round
\* removes exactly one candidate from the remaining list, there are at most n
\* rounds for n input candidates, and every call returns.
C20_GreedyTerminates ==
    /\ [][RoundStarts => /\ frame.st.current_R < R_target
                         /\ Len(frame.st.candidates) > 0]_vars
    /\ [][RoundEnds => /\ Len(frame'.st.candidates) = Len(frame.st.candidates) - 1
                       /\ Len(frame'.st.selected) = Len(frame.st.selected) + 1]_vars
    /\ [](frame.kind = "Frame" => Len(frame.st.selected) <= Len(candidates))
    /\ (frame.kind = "Frame") ~> (frame = NoFrame)

\* A call has returned after as many rounds as there are candidates, four or
\* more, the last of them reaching the target.
C20_Witness ==
    /\ frame = NoFrame
    /\ IsSolution(greedy_sol)
    /\ Len(candidates) > MaxN
    /\ greedy_sol.layers_used = Len(candidates)

\* --------------------------------------------------------------------- C21
\* A light layer of high reflectivity per mass that misses the target alone,
\* and a heavy one that meets it alone; no cap, no power option.
SuboptimalCase ==
    /\ candidates = << <<12, 10>>, <<28, 40>> >>
    /\ R_target = 24
    /\ max_layers = None
    /\ power_opt = None

\* C21: the greedy optimizer is not always optimal: for the valid candidates
\* and target of SuboptimalCase both optimizers return a Solution and the
\* greedy one's total mass is strictly greater than the exact one's.
C21_GreedyCanBeSuboptimal ==
    (SuboptimalCase /\ exact_sol # NotCalled /\ greedy_sol # NotCalled) =>
        /\ WellFormed
        /\ \A i \in 1..Len(candidates) : candidates[i][2] > 0
        /\ IsSolution(exact_sol)
        /\ IsSolution(greedy_sol)
        /\ greedy_sol.total_areal_mass_kg_m2 > exact_sol.total_areal_mass_kg_m2

\* Both optimizers were called on SuboptimalCase; greedy took the light layer
\* first and needed the heavy one as well, the exact optimizer only the heavy.
C21_Witness ==
    /\ SuboptimalCase
    /\ IsSolution(exact_sol)
    /\ IsSolution(greedy_sol)
    /\ exact_sol.layers_used = 1
    /\ greedy_sol.layers_used = 2
    /\ greedy_sol.total_areal_mass_kg_m2 > exact_sol.total_areal_mass_kg_m2

\* --------------------------------------------------------------------- C22
\* The index sequence a comes before b of the same length in lexicographic
\* order.
LexLess(a, b) ==
    \E k \in 1..Len(a) :
        /\ a[k] < b[k]
        /\ \A j \in 1..(k - 1) : a[j] = b[j]

\* The subset S is enumerated before T: smaller, or of the same size and
\* lexicographically earlier.
EnumeratedBefore(S, T) ==
    \/ Cardinality(S) < Cardinality(T)
    \/ Cardinality(S) = Cardinality(T) /\ LexLess(IndexSeq(S), IndexSeq(T))

\* The subsets the cap admits.
AdmittedSubsets ==
    { S \in NonEmptySubsets :
        max_layers = None \/ Cardinality(S) <= max_layers.value }

\* The feasible admitted subsets, each with its total mass.
FeasibleMasses ==
    { <<S, SubsetMass(S)>> : S \in { T \in AdmittedSubsets : Feasible(T) } }

\* The feasible admitted subsets of minimum total mass.
MinimumSubsets ==
    LET pairs == FeasibleMasses
    IN  { p[1] : p \in { q \in pairs : \A r \in pairs : q[2] <= r[2] } }

\* The layers at the positions S, in index order.
SubsetLayers(S) == [j \in 1..Cardinality(S) |-> candidates[IndexSeq(S)[j]]]

\* C22: when several feasible subsets share the minimum total mass, the exact
\* optimizer returns the one enumerated first (by size, then lexicographic
\* index order); a later subset of equal mass does not replace it.
C22_FirstMinimumKept ==
    IsSolution(exact_sol) =>
        LET minima == MinimumSubsets
        IN  \E S \in minima :
                /\ \A T \in minima : T = S \/ EnumeratedBefore(S, T)
                /\ exact_sol.selected_layers = SubsetLayers(S)
                /\ exact_sol.layers_used = Cardinality(S)

\* Two subsets of different layers share the minimum mass, one of them of the
\* Solution's size, and the Solution holds the layers of the earlier one.
C22_Witness ==
    /\ WellFormed
    /\ IsSolution(exact_sol)
    /\ LET minima == MinimumSubsets
       IN  \E S, T \in minima :
               /\ Cardinality(S) = Cardinality(T)
               /\ SubsetLayers(S) # SubsetLayers(T)
               /\ exact_sol.selected_layers = SubsetLayers(S)

\* --------------------------------------------------------------------- C23
\* The greedy variant that keeps the running reflectivity incrementally:
\* new_R = 1 - (1 - current_R) * (1 - r).
IncrementalR(current_R, r) ==
    FSub(One, FMul(FSub(One, current_R), FSub(One, r)))

IncrementalRatio(r, m, current_R) ==
    IF m > 0 THEN FDiv(FSub(IncrementalR(current_R, r), current_R), m) ELSE 0

RECURSIVE IncrementalScan(_, _, _, _)
IncrementalScan(cands, current_R, i, best) ==
    IF i > Len(cands) THEN best
    ELSE LET ratio == IncrementalRatio(cands[i][1], cands[i][2], current_R)
         IN  IncrementalScan(cands, current_R, i + 1,
                             IF ratio > best[1] THEN <<ratio, i>> ELSE best)

IncrementalRound(st, best_idx) ==
    LET c == st.candidates[best_idx]
    IN  [candidates |-> Pop(st.candidates, best_idx),
         selected |-> Append(st.selected, c),
         current_R |-> IncrementalR(st.current_R, c[1]),
         current_mass |-> FAdd(st.current_mass, c[2])]

RECURSIVE IncrementalLoop(_, _)
IncrementalLoop(st, Rt) ==
    IF st.current_R < Rt /\ Len(st.candidates) > 0
    THEN LET best == IncrementalScan(st.candidates, st.current_R, 1, <<0 - One, 0>>)
         IN  IF best[2] = 0 THEN st
             ELSE IncrementalLoop(IncrementalRound(st, best[2]), Rt)
    ELSE st

IncrementalGreedy(Rt, cands, popt) ==
    GreedyResult(IncrementalLoop([candidates |-> sorted(cands), selected |-> <<>>,
                                  current_R |-> 0, current_mass |-> 0], Rt),
                 Rt, popt)

\* C23: the incremental variant returns, for every well-formed candidate list
\* and target, what the greedy optimizer returns: the same outcome, selection sequence,
\* achieved reflectivity and total mass.
C23_IncrementalVariantAgrees ==
    (WellFormed /\ greedy_sol # NotCalled) =>
        greedy_sol = IncrementalGreedy(R_target, candidates, power_opt)

\* --------------------------------------------------------------------- C24
\* Reflectivities in [0,1) and positive masses.
PositiveMasses ==
    /\ WellFormed
    /\ \A i \in 1..Len(candidates) : candidates[i][2] > 0

\* The prefixes of the ratio-sorted candidate list that meet the target.
FeasiblePrefixes ==
    { k \in 1..Len(candidates) :
        combined_reflectivity(Reflectivities(SubSeq(sorted(candidates), 1, k)))
            >= R_target }

\* C24: for positive masses and reflectivities in [0,1) the greedy optimizer
\* selects in the order of the static ratio reflectivity / areal_mass, ties in
\* input order: it returns the shortest prefix of the ratio-sorted list whose
\* combined reflectivity meets the target, and None when no prefix does.
C24_StaticRatioOrder ==
    (PositiveMasses /\ greedy_sol # NotCalled) =>
        /\ IsSolution(greedy_sol) <=> FeasiblePrefixes # {}
        /\ IsSolution(greedy_sol) =>
              /\ greedy_sol.layers_used \in FeasiblePrefixes
              /\ \A k \in FeasiblePrefixes : greedy_sol.layers_used <= k
              /\ greedy_sol.selected_layers
                    = SubSeq(sorted(candidates), 1, greedy_sol.layers_used)

\* --------------------------------------------------------------------- C25
\* C25: on well-formed input the greedy optimizer returns a Solution if and
\* only if the uncapped exact optimizer does, if and only if the combined
\* reflectivity of the full candidate list is at least the target.
C25_FeasibilityAgrees ==
    ( /\ WellFormed
      /\ max_layers = None
      /\ exact_sol # NotCalled
      /\ greedy_sol # NotCalled ) =>
        /\ IsSolution(greedy_sol) <=> IsSolution(exact_sol)
        /\ IsSolution(exact_sol)
              <=> combined_reflectivity(Reflectivities(candidates)) >= R_target

\* --------------------------------------------------------------------- C26
\* The layers but the last one.
Front(layers) == SubSeq(layers, 1, Len(layers) - 1)

\* C26: the greedy optimizer selects no layer once the target is reached: in a
\* greedy Solution the combined reflectivity of the selected layers without
\* the one selected last is strictly below the target.
C26_NoLayerAfterTarget ==
    (IsSolution(greedy_sol) /\ greedy_sol.layers_used >= 1) =>
        combined_reflectivity(Reflectivities(Front(greedy_sol.selected_layers)))
            < R_target

\* A greedy Solution of three layers; the first two stay below the target.
C26_Witness ==
    /\ WellFormed
    /\ IsSolution(greedy_sol)
    /\ greedy_sol.layers_used = 3
    /\ greedy_sol.achieved_reflectivity >= R_target


\* --------------------------------------------------------------------- C27
\* The number of positions of a list that hold the value v.
Occurrences(layers, v) == Cardinality({i \in 1..Len(layers) : layers[i] = v})

\* The two lists together hold every input candidate exactly as often as the
\* input does, and nothing else.
Partition(selected, remaining, input) ==
    /\ Len(selected) + Len(remaining) = Len(input)
    /\ \A i \in 1..Len(input) :
          Occurrences(selected, input[i]) + Occurrences(remaining, input[i])
              = Occurrences(input, input[i])

\* C27: at every point of the greedy loop the selected list and the
\* remaining-candidates list partition the input (each input candidate is in
\* exactly one of them, exactly once); at each loop head current_R is
\* combined_reflectivity of the selected layers and current_mass is the sum
\* of their masses.
C27_LoopInvariant ==
    frame.kind = "Frame" =>
        /\ Partition(frame.st.selected, frame.st.candidates, candidates)
        /\ frame.pc = "while" =>
              /\ frame.st.current_R
                    = combined_reflectivity(Reflectivities(frame.st.selected))
              /\ frame.st.current_mass = RunningMass(frame.st.selected, 1, 0)

C27_Witness ==
    /\ frame.kind = "Frame" /\ frame.pc = "while"
    /\ Len(frame.st.selected) = 2 /\ Len(frame.st.candidates) >= 1
    /\ frame.st.selected[1][2] > 0 /\ frame.st.selected[2][2] > 0
    /\ WhileCondition(frame.st, R_target)


\* --------------------------------------------------------------------- C28
\* The caps compared: 0 up to one more than the longest list.
Caps == 0..(MaxN + 1)

\* The exact search of the state's call, run with the cap k instead.
ExactAtCap(k) ==
    optimize_reflector_bruteforce(R_target, candidates, k, power_opt)

\* The results at the caps k, k+1, ..., MaxN+1, as a list.
RECURSIVE CapResults(_)
CapResults(k) ==
    IF k > MaxN + 1 THEN <<>>
    ELSE <<ExactAtCap(PyInt(k))>> \o CapResults(k + 1)

\* C28: the max_layers cap is monotone: for k1 <= k2, a Solution at k1 means
\* a Solution at k2 of total mass no greater; a cap >= n (the number of
\* candidates) gives the result of no cap; a cap of 0 gives Infeasible.
\* The caps are compared with each other after the call without cap, whose
\* result is exact_sol; a call with a cap is compared with the search
\* without cap.
C28_CapMonotone ==
    /\ (max_layers = None /\ exact_sol # NotCalled /\ greedy_sol = NotCalled) =>
          LET at == CapResults(0)
          IN  /\ \A k1 \in Caps : \A k2 \in k1..(MaxN + 1) :
                    IsSolution(at[k1 + 1]) =>
                        /\ IsSolution(at[k2 + 1])
                        /\ at[k2 + 1].total_areal_mass_kg_m2
                              <= at[k1 + 1].total_areal_mass_kg_m2
              /\ \A k \in Caps : k >= Len(candidates) => at[k + 1] = exact_sol
              /\ at[1] = None
    /\ (max_layers # None /\ exact_sol # NotCalled) =>
          /\ max_layers = PyInt(0) => exact_sol = None
          /\ max_layers.value >= Len(candidates) => exact_sol = ExactAtCap(None)
          /\ IsSolution(exact_sol) =>
                /\ IsSolution(ExactAtCap(None))
                /\ ExactAtCap(None).total_areal_mass_kg_m2
                      <= exact_sol.total_areal_mass_kg_m2

C28_Witness ==
    /\ WellFormed /\ max_layers = PyInt(1) /\ IsSolution(exact_sol)
    /\ ExactAtCap(PyInt(2)).total_areal_mass_kg_m2
          < exact_sol.total_areal_mass_kg_m2
    /\ ExactAtCap(PyInt(0)) = None
    /\ ExactAtCap(PyInt(Len(candidates))) = ExactAtCap(None)


\* --------------------------------------------------------------------- C29
\* The stack without its i-th layer.
Without(layers, i) ==
    SubSeq(layers, 1, i - 1) \o SubSeq(layers, i + 1, Len(layers))

\* The stack without its i-th layer is empty or misses the target.
Needed(layers, i) ==
    \/ Without(layers, i) = <<>>
    \/ combined_reflectivity(Reflectivities(Without(layers, i))) < R_target

\* C29: the exact optimizer's Solution carries no redundant layer of positive
\* mass: without any one layer of areal_mass > 0 the returned stack is empty
\* or its combined reflectivity is below the target.
C29_NoRedundantLayer ==
    IsSolution(exact_sol) =>
        \A i \in 1..Len(exact_sol.selected_layers) :
            exact_sol.selected_layers[i][2] > 0 =>
                Needed(exact_sol.selected_layers, i)

C29_Witness ==
    /\ WellFormed /\ IsSolution(exact_sol) /\ exact_sol.layers_used >= 2
    /\ \A i \in 1..exact_sol.layers_used : exact_sol.selected_layers[i][2] > 0
    /\ \E T \in NonEmptySubsets :
          Cardinality(T) > exact_sol.layers_used /\ Feasible(T)


\* ============================================ src/dyson_scalability.py
\* The quantities of dyson_scalability are carried as whole numbers: a fraction
\* (eta_target, vn_efficiency, waste_heat_propulsion_eff) is written in
\* thousandths, and the arguments are drawn from values for which every
\* quotient taken below is whole.  The entries of the result that need np.log
\* or np.cumsum (the launch and self-sufficiency times, lines 48-64, 77-78,
\* 92-98, 100) do not bear on the LFTR entries and are not carried.
\* The module-level names bound when the function runs (lines 1-16).
ModuleGlobals ==
    [ np |-> "module", plt |-> "module",
      R_earth |-> 6371000, A_earth_cross_section |-> 1000000,
      S0 |-> 1362, c |-> 299792458,
      dyson_scalability |-> "function" ]

\* What a name read in the function body is bound to: a parameter, else a
\* module-level name; a name bound nowhere is not ok.
LoadName(args, name) ==
    IF name \in DOMAIN args THEN [ok |-> TRUE, value |-> args[name]]
    ELSE IF name \in DOMAIN ModuleGlobals
         THEN [ok |-> TRUE, value |-> ModuleGlobals[name]]
         ELSE [ok |-> FALSE, value |-> name]

\* The exception a name bound nowhere raises.
NameError(name) == [kind |-> "NameError", name |-> name]

\* np.ceil(a / b) for whole a >= 0 and b > 0.
Ceil(a, b) == (a + b - 1) \div b

\* 2 ** k for a whole k >= 0.
RECURSIVE TwoToThe(_)
TwoToThe(k) == IF k = 0 THEN 1 ELSE 2 * TwoToThe(k - 1)

\* Lines 43-45: the L1 phase.
CoreRequirements(args) ==
    LET N_occulter == (args.eta_target * ModuleGlobals.A_earth_cross_section)
                          \div (1000 * args.A_shade_m2 * args.kappa)
        mass_per_occulter_kg == args.A_shade_m2 * args.areal_density_kgpm2
    IN  [N_occulter |-> N_occulter,
         mass_per_occulter_kg |-> mass_per_occulter_kg,
         total_mass_t |-> (N_occulter * mass_per_occulter_kg) \div 1000]

\* Lines 67-76: the von Neumann expansion.
VonNeumann(args, core) ==
    IF args.von_neumann_enabled
    THEN LET N_probes_final ==
                 args.vn_initial_probes
                     * TwoToThe(args.mission_years \div args.vn_replication_years)
             total_probe_mass_t == (N_probes_final * 1000) \div 1000
             extra_occulters ==
                 N_probes_final
                     * ((args.vn_efficiency * ModuleGlobals.A_earth_cross_section)
                            \div (1000 * args.A_shade_m2))
         IN  [N_probes_final |-> N_probes_final,
              extra_occulters |-> extra_occulters,
              N_occulter |-> core.N_occulter + extra_occulters,
              total_mass_t |-> core.total_mass_t + total_probe_mass_t]
    ELSE [N_probes_final |-> 0,
          extra_occulters |-> 0,
          N_occulter |-> core.N_occulter,
          total_mass_t |-> core.total_mass_t]

\* Lines 81-90: LFTR power and waste heat propulsion.  Line 84 reads the name
\* lftr_mass_t.
Lftr(args, vn) ==
    IF args.lftr_enabled
    THEN LET lftr_mass_t == LoadName(args, "lftr_mass_t")
         IN  IF ~lftr_mass_t.ok THEN NameError("lftr_mass_t")
             ELSE LET total_lftr_mass_t ==
                          lftr_mass_t.value * Ceil(vn.N_occulter, 1000)
                      lftr_power_mw == total_lftr_mass_t * args.lftr_power_mw_per_ton
                      lftr_power_kw == lftr_power_mw * 1000
                      waste_heat_power_kw ==
                          (lftr_power_kw * (1000 - args.waste_heat_propulsion_eff))
                              \div 1000
                      propellant_savings_t ==
                          (vn.total_mass_t * (waste_heat_power_kw \div 500)) \div 2
                  IN  [kind |-> "ok",
                       lftr_power_kw |-> lftr_power_kw,
                       propellant_savings_t |-> propellant_savings_t,
                       total_mass_t |-> vn.total_mass_t + total_lftr_mass_t
                                            - propellant_savings_t]
    ELSE [kind |-> "ok", lftr_power_kw |-> 0, propellant_savings_t |-> 0,
          total_mass_t |-> vn.total_mass_t]

\* The function: its result dictionary (lines 102-121), or the exception that
\* ends it.
dyson_scalability(args) ==
    LET core == CoreRequirements(args)
        vn == VonNeumann(args, core)
        lftr == Lftr(args, vn)
    IN  IF lftr.kind # "ok" THEN lftr
        ELSE [kind |-> "dict",
              eta_target |-> args.eta_target,
              N_occulter |-> vn.N_occulter,
              total_mass_t |-> lftr.total_mass_t,
              mass_per_occulter_kg |-> core.mass_per_occulter_kg,
              von_neumann_enabled |-> args.von_neumann_enabled,
              N_probes_final |-> vn.N_probes_final,
              extra_occulters_from_vn |-> vn.extra_occulters,
              lftr_enabled |-> args.lftr_enabled,
              lftr_power_kw |-> lftr.lftr_power_kw,
              propellant_savings_t |-> lftr.propellant_savings_t]

\* The arguments of a call: the keyword parameters of lines 16-35 that the
\* carried entries depend on.
Arguments(eta, density, years, vn_on, lftr_on, unit_mass) ==
    [eta_target |-> eta,
     A_shade_m2 |-> 1,
     kappa |-> 1,
     areal_density_kgpm2 |-> density,
     mission_years |-> years,
     von_neumann_enabled |-> vn_on,
     vn_replication_years |-> 10,
     vn_efficiency |-> 200,
     vn_initial_probes |-> 10,
     lftr_enabled |-> lftr_on,
     lftr_mass_ton |-> unit_mass,
     lftr_power_mw_per_ton |-> 1,
     waste_heat_propulsion_eff |-> 500]

\* The targets of the script, in thousandths (lines 127-129).
targets == <<18, 100, 300, 500, 990, 1000>>

\* The call of the main loop for the target eta (lines 137-146).
MainArguments(eta) == Arguments(eta, 1, 100, TRUE, TRUE, 2)

ScalabilityArguments ==
    { Arguments(eta, density, years, vn_on, lftr_on, unit_mass) :
        eta \in {18, 500, 1000}, density \in {1, 2}, years \in {10, 20},
        vn_on \in BOOLEAN, lftr_on \in BOOLEAN, unit_mass \in {1, 2} }

ScalInit ==
    /\ NoOptimizerCall
    /\ NoDirectCall
    /\ scal_args \in ScalabilityArguments
    /\ scal_ret = NotCalled
    /\ main = [kind |-> "Running", eta |-> 1, res |-> NotCalled]

\* res = dyson_scalability(**scal_args), from another module.
CallDysonScalability ==
    /\ scal_ret = NotCalled
    /\ scal_ret' = dyson_scalability(scal_args)
    /\ UNCHANGED <<scal_args, main>>
    /\ UNCHANGED <<R_target, candidates, max_layers, power_opt, exact_sol, greedy_sol>>
    /\ UNCHANGED <<cr_arg, cr_ret, frame, exact_again, greedy_again>>

\* One pass of the script's loop (lines 136-157): the call and the printed
\* line; an exception of the call is not caught and ends the script.
MainIteration ==
    /\ main.kind = "Running"
    /\ LET res == dyson_scalability(MainArguments(targets[main.eta]))
       IN  main' = IF res.kind # "dict"
                   THEN [kind |-> "Traceback", eta |-> main.eta, res |-> res]
                   ELSE IF main.eta = Len(targets)
                        THEN [kind |-> "Finished", eta |-> main.eta, res |-> res]
                        ELSE [kind |-> "Running", eta |-> main.eta + 1, res |-> res]
    /\ UNCHANGED <<scal_args, scal_ret>>
    /\ UNCHANGED <<R_target, candidates, max_layers, power_opt, exact_sol, greedy_sol>>
    /\ UNCHANGED <<cr_arg, cr_ret, frame, exact_again, greedy_again>>

ScalNext == CallDysonScalability \/ MainIteration

ScalSpec == ScalInit /\ [][ScalNext]_vars

\* --------------------------------------------------------------------- C30
\* The result is the dictionary, with the LFTR entries worked out from the
\* unit mass passed as lftr_mass_ton (lines 84-89).
LftrEntriesFromUnitMass(args, ret) ==
    /\ ret.kind = "dict"
    /\ LET vn == VonNeumann(args, CoreRequirements(args))
           lftr_power_kw ==
               args.lftr_mass_ton * Ceil(vn.N_occulter, 1000)
                   * args.lftr_power_mw_per_ton * 1000
           waste_heat_power_kw ==
               (lftr_power_kw * (1000 - args.waste_heat_propulsion_eff))
                   \div 1000
       IN  /\ ret.lftr_power_kw = lftr_power_kw
           /\ ret.propellant_savings_t
                = (vn.total_mass_t * (waste_heat_power_kw \div 500)) \div 2

\* C30: dyson_scalability called with lftr_enabled=True, as the script's main
\* loop calls it for every target, completes and returns the result
\* dictionary with lftr_power_kw and propellant_savings_t computed from the
\* LFTR unit mass parameter; it does not end in an error.
C30_LftrCallCompletes ==
    /\ (scal_args # NoArgs /\ scal_args.lftr_enabled /\ scal_ret # NotCalled) =>
          LftrEntriesFromUnitMass(scal_args, scal_ret)
    /\ (main # NotRun /\ main.res # NotCalled) =>
          /\ main.kind # "Traceback"
          /\ LftrEntriesFromUnitMass(MainArguments(main.res.eta_target), main.res)

====
